---- MODULE Spec2Model ----
(***************************************************************************)
(* State-machine model of MAST's BaseIngredient                            *)
(* (src/MAST/ingredients/baseingredient.py): one job directory on a shared *)
(* filesystem, the Ingredient operations that act on it, the orchestrator  *)
(* processes that call them, and the external program launched by run.    *)
(*                                                                         *)
(* dirutil, vasp_checker and vasp_error are imported by the source but     *)
(* their code is not part of the source tree; they are modelled from the   *)
(* written specification (sections 4.2 - 4.4).  The same holds for the     *)
(* VaspChecker operations exercised by src/test/checker_test: forwarding a *)
(* structure, the displacement artifact, and the POSCAR and KPOINTS setup. *)
(***************************************************************************)
EXTENDS Integers, Sequences, FiniteSets, TLC

\* ------------------------------------------------------------------ bounds
MaxImages == 2      \* largest value of program_keys['images']
NumProcs  == 2      \* orchestrator processes sharing the job directory
MaxErrct  == 1      \* largest count the ErrorHandler reports
MaxCopies == 2      \* mappings handed out by get_children
MaxCoord  == 3      \* largest coordinate, in halves of the last written digit
MaxConfigs == 2     \* configurations in one displacement payload
MaxGrid   == 3      \* largest dimension of a k-point grid

Procs    == 1..NumProcs
Self     == 1                       \* the process that owns the Ingredient
Programs == {"vasp", "abinit"}      \* 'vasp' is the one recognized program
Modes    == {"noqsub", "serial", "other"}
NoneVal  == "None"

\* directories: 0 is the job directory keywords['name'], i >= 1 its image
\* sub-directory str(i).zfill(2)
JobDir    == 0
ImageDirs == 1..MaxImages
Dirs      == {JobDir} \cup ImageDirs

InputArtifacts == {"POSCAR", "KPOINTS", "POTCAR", "INCAR"}

Labels   == {"a", "b"}              \* child-role labels
Children == {"c1", "c2"}            \* child Ingredients (references)
EmptyDict == [l \in {} |-> "c1"]
Dicts    == UNION {[D -> Children] : D \in SUBSET Labels}

VARIABLES
    keywords,    \* the configuration record: name, program, program_keys, child_dict
    dirExists,   \* the job directory exists on disk
    fsWritable,  \* os.makedirs can create the job directory
    marker,      \* the lock marker file is in the job directory
    files,       \* artifacts on disk: <<directory, file name>>
    outcar,      \* per directory: OUTCAR "absent", "started" or "complete"
    queued,      \* a job submitted to the queue has not started yet
    cwd,         \* per process: the working directory
    holders,     \* processes between their lock_directory and unlock_directory
    lockPhase,   \* the last of lock_directory / unlock_directory that returned
    last,        \* the last operation and its outcome
    pc,          \* per process: position in the orchestrator protocol
    heap,        \* mapping objects; heap[keywords.child_dict] is the child mapping
    returned,    \* the object the caller got from get_children (0 is None)
    disk         \* the contents of the artifacts the Checker reads and writes

jobvars  == <<dirExists, fsWritable, marker, files, outcar, queued, cwd, holders,
             lockPhase, pc, heap, returned>>
fsvars   == <<dirExists, fsWritable, marker, files, outcar, queued>>
lockvars == <<marker, holders, lockPhase>>
heapvars == <<heap, returned>>
vars == <<keywords, dirExists, fsWritable, marker, files, outcar, queued,
          cwd, holders, lockPhase, last, pc, heap, returned, disk>>

\* ---------------------------------------------------------------- outcomes
Bool(b)       == IF b THEN "True" ELSE "False"
Return(v)     == [outcome |-> "return", val |-> v, exc |-> "", cls |-> "", msg |-> ""]
Raise(e, c, m) == [outcome |-> "raise", val |-> "", exc |-> e, cls |-> c, msg |-> m]
ClassName     == "BaseIngredient"
NotRecognized(method) == Raise("MASTError", ClassName, method)
DidArg(op, arg, res) == [op |-> op, arg |-> arg, res |-> res, eh |-> "no", errct |-> 0]
Did(op, res)  == DidArg(op, "", res)
NoCall        == Did("init", Return(NoneVal))

HasImages == "images" \in DOMAIN keywords.program_keys
Images    == keywords.program_keys["images"]

\* ------------------------------------------------- dirutil (DirectoryLock)
\* specification 4.4: directory_is_locked is a pure predicate on the marker
dirutil_directory_is_locked == marker

\* specification 4.4: lock_directory creates the marker (idempotent when it is
\* already there); the marker lives inside the job directory
dirutil_lock_directory(p) ==
    /\ marker'    = TRUE
    /\ holders'   = holders \cup {p}
    /\ lockPhase' = "locked"

\* specification 4.4: unlock_directory removes the marker
dirutil_unlock_directory(p) ==
    /\ marker'    = FALSE
    /\ holders'   = holders \ {p}
    /\ lockPhase' = "unlocked"

\* wait_to_write giving up on a marker that stays
dirutil_wait_to_write_gives_up == TRUE

\* specification 4.4: wait_to_write blocks the caller until the marker clears;
\* this is the condition under which it returns
dirutil_wait_to_write == ~marker

\* ------------------------------------------- vasp_checker (ExternalProgramChecker)
\* specification 4.2: true iff the completion marker is in the primary log
\* artifact (OUTCAR) of the directory
vasp_checker_is_complete(d) == outcar[d] = "complete"

\* specification 4.1 / 4.2: completion across all images 01 .. N
vasp_checker_images_complete(n) == \A i \in 1..n : vasp_checker_is_complete(i)

\* specification 4.2: true iff all required input artifacts are present
vasp_checker_is_ready_to_run == \A f \in InputArtifacts : <<JobDir, f>> \in files

\* specification 4.2: the full input artifact set is written to the job directory
vasp_checker_set_up_program_input ==
    files' = files \cup {<<JobDir, f>> : f \in InputArtifacts}

\* specification 4.2: as above, with one structure artifact per image directory
vasp_checker_set_up_program_input_neb(n) ==
    files' = files \cup {<<JobDir, f>> : f \in InputArtifacts \ {"POSCAR"}}
                   \cup {<<i, "POSCAR">> : i \in 1..n}

\* specification 4.2: the parent's artifact is copied into the child directory
vasp_checker_forward(newname) == files' = files \cup {<<JobDir, newname>>}

\* specification 4.2: first ("00") or last image sub-directory
vasp_checker_get_path_to_write_neb_parent_energy(n, parent) ==
    IF parent = 1 THEN 0 ELSE n + 1

\* ------------------------------------------------------ external program
\* the directories the launched program writes its OUTCAR into
RunDirs == IF HasImages THEN 1..Images ELSE {JobDir}

ExitStates == [RunDirs -> {"started", "complete"}]

Wrote(o) == [d \in Dirs |-> IF d \in RunDirs THEN o[d] ELSE outcar[d]]

Started == [d \in RunDirs |-> IF outcar[d] = "complete" THEN "complete" ELSE "started"]

Zfill2(i) == <<"00", "01", "02", "03", "04", "05", "06", "07", "08", "09">>[i + 1]

\* ------------------------------------------------------------ BaseIngredient
\* os.makedirs raises OSError: the directory exists, or it cannot be created
makedirs_raises == dirExists \/ ~fsWritable

\* the except clause of line 18 letting through an OSError other than
\* "the directory exists"
write_directory_reraises(p) ==
    /\ dirExists' = (IF makedirs_raises THEN dirExists ELSE TRUE)
    /\ last' = Did("write_directory",
                   IF ~dirExists /\ ~fsWritable THEN Raise("OSError", "", "")
                                                ELSE Return(NoneVal))
    /\ UNCHANGED <<keywords, fsWritable, marker, files, outcar, queued, cwd,
                   holders, lockPhase>>

write_directory(p) ==
    /\ IF makedirs_raises
          THEN dirExists' = dirExists          \* except OSError: print; return
          ELSE dirExists' = TRUE
    /\ last' = Did("write_directory", Return(NoneVal))
    /\ UNCHANGED <<keywords, fsWritable, marker, files, outcar, queued, cwd,
                   holders, lockPhase>>

get_structure_from_file_result(filepath) ==
    IF keywords.program = "vasp"
       THEN IF filepath \in files THEN Return("Structure")
                                  ELSE Raise("IOError", "", "")
       ELSE NotRecognized("get_structure_from_file")

get_structure_from_file(p, filepath) ==
    /\ last' = Did("get_structure_from_file", get_structure_from_file_result(filepath))
    /\ UNCHANGED <<keywords, fsvars, cwd, holders, lockPhase>>

\* parentOK: the parent directory holds the artifact that is forwarded
forward_parent(p, op, parentOK, newname, method) ==
    /\ IF keywords.program = "vasp"
          THEN IF dirExists /\ parentOK
                  THEN /\ vasp_checker_forward(newname)
                       /\ last' = Did(op, Return(NoneVal))
                  ELSE /\ files' = files
                       /\ last' = Did(op, Raise("IOError", "", ""))
          ELSE /\ files' = files
               /\ last' = Did(op, NotRecognized(method))
    /\ UNCHANGED <<keywords, dirExists, fsWritable, marker, outcar, queued, cwd,
                   holders, lockPhase>>

forward_parent_structure(p, parentOK) ==
    forward_parent(p, "forward_parent_structure", parentOK, "POSCAR",
                   "forward_parent_structure")

forward_parent_energy(p, parentOK) ==
    forward_parent(p, "forward_parent_energy", parentOK, "OSZICAR",
                   "forward_parent_structure")

\* the path is_complete probes for OUTCAR
usepath == IF HasImages THEN 1 ELSE JobDir

mycomplete ==
    IF HasImages THEN vasp_checker_images_complete(Images)
                 ELSE vasp_checker_is_complete(usepath)

\* the calls is_complete makes, in the order it makes them
is_complete_calls ==
    IF keywords.program = "vasp"
       THEN <<IF HasImages THEN "vasp_checker.images_complete"
                           ELSE "vasp_checker.is_complete">>
            \o (IF mycomplete THEN <<>>
                ELSE <<"os.path.exists">>
                     \o (IF outcar[usepath] = "absent" THEN <<>>
                         ELSE <<"vasp_error.loop_through_errors">>))
       ELSE <<>>

\* the ErrorHandler asked before the Checker's answer is looked at
consults_before_checker ==
    IF keywords.program = "vasp" /\ outcar[usepath] # "absent"
       THEN (IF HasImages THEN "01:1" ELSE "dir")
       ELSE "no"

\* the ErrorHandler is consulted: on which path, restricted to which image
consults ==
    IF keywords.program = "vasp" /\ ~mycomplete /\ outcar[usepath] # "absent"
       THEN (IF HasImages THEN "01:1" ELSE "dir")
       ELSE "no"

\* line 64 returning True for a job that has not started
is_complete_result_notstarted_true(errct) ==
    IF keywords.program = "vasp"
       THEN IF mycomplete
               THEN Return(Bool(mycomplete))
               ELSE IF outcar[usepath] = "absent"
                       THEN Return("True")
                       ELSE Return("False")
       ELSE NotRecognized("is_complete")

\* line 72 taking "no recognized failure" for completion
is_complete_result_noerr_true(errct) ==
    IF keywords.program = "vasp"
       THEN IF mycomplete
               THEN Return(Bool(mycomplete))
               ELSE IF outcar[usepath] = "absent"
                       THEN Return("False")
                       ELSE Return(Bool(errct = 0))
       ELSE NotRecognized("is_complete")

is_complete_result(errct) ==
    IF keywords.program = "vasp"
       THEN IF mycomplete
               THEN Return(Bool(mycomplete))
               ELSE IF outcar[usepath] = "absent"
                       THEN Return("False")     \* hasn't started running yet
                       ELSE Return("False")     \* errct > 0: pass
       ELSE NotRecognized("is_complete")

\* line 71 with the commented-out self.run() restored
is_complete_rerun(p, errct) ==
    /\ last' = [op |-> "is_complete", arg |-> "", res |-> is_complete_result(errct),
                eh |-> consults,
                errct |-> IF consults = "no" THEN 0 ELSE errct]
    /\ IF consults # "no" /\ errct > 0 /\ dirExists
          THEN queued' = TRUE
          ELSE queued' = queued
    /\ UNCHANGED <<keywords, dirExists, fsWritable, marker, files, outcar, cwd,
                   holders, lockPhase>>

is_complete(p, errct) ==
    /\ last' = [op |-> "is_complete", arg |-> "", res |-> is_complete_result(errct),
                eh |-> consults,
                errct |-> IF consults = "no" THEN 0 ELSE errct]
    /\ UNCHANGED <<keywords, fsvars, cwd, holders, lockPhase>>

lock_directory(p) ==
    /\ IF dirExists
          THEN /\ dirutil_lock_directory(p)
               /\ last' = Did("lock_directory", Return(NoneVal))
          ELSE /\ UNCHANGED lockvars
               /\ last' = Did("lock_directory", Raise("IOError", "", ""))
    /\ UNCHANGED <<keywords, dirExists, fsWritable, files, outcar, queued, cwd>>

unlock_directory(p) ==
    /\ dirutil_unlock_directory(p)
    /\ last' = Did("unlock_directory", Return(NoneVal))
    /\ UNCHANGED <<keywords, dirExists, fsWritable, files, outcar, queued, cwd>>

directory_is_locked == dirutil_directory_is_locked

\* blocked (not enabled) until dirutil.wait_to_write returns
wait_to_write(p) ==
    /\ dirutil_wait_to_write
    /\ last' = Did("wait_to_write", Return(NoneVal))
    /\ UNCHANGED <<keywords, fsvars, cwd, holders, lockPhase>>

\* is_ready_to_run without the lock check of lines 90-91
is_ready_to_run_result_nolock ==
    IF keywords.program = "vasp"
       THEN Return(Bool(vasp_checker_is_ready_to_run))
       ELSE NotRecognized("is_complete")

is_ready_to_run_result ==
    IF directory_is_locked
       THEN Return("False")
       ELSE IF keywords.program = "vasp"
               THEN Return(Bool(vasp_checker_is_ready_to_run))
               ELSE NotRecognized("is_complete")

\* is_ready_to_run taking the lock itself when the directory is ready
is_ready_to_run_locks(p) ==
    /\ last' = Did("is_ready_to_run", is_ready_to_run_result)
    /\ IF is_ready_to_run_result = Return("True")
          THEN dirutil_lock_directory(p)
          ELSE UNCHANGED lockvars
    /\ UNCHANGED <<keywords, dirExists, fsWritable, files, outcar, queued, cwd>>

is_ready_to_run(p) ==
    /\ last' = Did("is_ready_to_run", is_ready_to_run_result)
    /\ UNCHANGED <<keywords, fsvars, cwd, holders, lockPhase>>

Faults == {"none", "command", "popen", "wait"}

\* values of the curdir argument of run: the directory the caller is in, or
\* another one
CurdirArgs == {"start", "elsewhere"}

\* run in 'serial' mode blocking until the queued job itself is done
run_waits_for_job(p, mode, curdir, fault) ==
    LET curdir_ == cwd[p] IN       \* curdir = os.getcwd(): the argument is replaced
    /\ fault # "none" => mode \in {"noqsub", "serial"}
    /\ IF ~dirExists
          THEN \* os.chdir(self.keywords['name']) raises
               /\ UNCHANGED <<cwd, outcar, queued>>
               /\ last' = DidArg("run", mode, Raise("OSError", "", ""))
          ELSE IF fault \in {"command", "popen"}
          THEN \* raised before a process exists; os.chdir(curdir) is not reached
               /\ cwd' = [cwd EXCEPT ![p] = "job"]
               /\ UNCHANGED <<outcar, queued>>
               /\ last' = DidArg("run", mode, Raise("OSError", "", ""))
          ELSE IF fault = "wait"
          THEN \* the process was launched; waiting on it raised
               /\ cwd' = [cwd EXCEPT ![p] = "job"]
               /\ IF mode = "noqsub"
                     THEN outcar' = Wrote(Started) /\ queued' = queued
                     ELSE outcar' = outcar /\ queued' = TRUE
               /\ last' = DidArg("run", mode, Raise("KeyboardInterrupt", "", ""))
          ELSE /\ cwd' = [cwd EXCEPT ![p] = curdir_]     \* os.chdir(curdir)
               /\ IF mode = "noqsub"
                     THEN \* the program ran until it exited
                          /\ \E o \in ExitStates : outcar' = Wrote(o)
                          /\ queued' = queued
                     ELSE IF mode = "serial"
                     THEN \* waits until the submitted job has finished
                          /\ outcar' = Wrote([d \in RunDirs |-> "complete"])
                          /\ queued' = queued
                     ELSE UNCHANGED <<outcar, queued>>
               /\ last' = DidArg("run", mode, Return(NoneVal))
    /\ UNCHANGED <<keywords, dirExists, fsWritable, marker, files, holders, lockPhase>>

\* run without line 111: the directory restored is the curdir argument
run_restores_argument(p, mode, curdir, fault) ==
    LET curdir_ == curdir IN
    /\ fault # "none" => mode \in {"noqsub", "serial"}
    /\ IF ~dirExists
          THEN \* os.chdir(self.keywords['name']) raises
               /\ UNCHANGED <<cwd, outcar, queued>>
               /\ last' = DidArg("run", mode, Raise("OSError", "", ""))
          ELSE IF fault \in {"command", "popen"}
          THEN \* raised before a process exists; os.chdir(curdir) is not reached
               /\ cwd' = [cwd EXCEPT ![p] = "job"]
               /\ UNCHANGED <<outcar, queued>>
               /\ last' = DidArg("run", mode, Raise("OSError", "", ""))
          ELSE IF fault = "wait"
          THEN \* the process was launched; waiting on it raised
               /\ cwd' = [cwd EXCEPT ![p] = "job"]
               /\ IF mode = "noqsub"
                     THEN outcar' = Wrote(Started) /\ queued' = queued
                     ELSE outcar' = outcar /\ queued' = TRUE
               /\ last' = DidArg("run", mode, Raise("KeyboardInterrupt", "", ""))
          ELSE /\ cwd' = [cwd EXCEPT ![p] = curdir_]     \* os.chdir(curdir)
               /\ IF mode = "noqsub"
                     THEN \* the program ran until it exited
                          /\ \E o \in ExitStates : outcar' = Wrote(o)
                          /\ queued' = queued
                     ELSE IF mode = "serial"
                     THEN \* the submission command returned; the job is queued
                          /\ outcar' = outcar
                          /\ queued' = TRUE
                     ELSE UNCHANGED <<outcar, queued>>
               /\ last' = DidArg("run", mode, Return(NoneVal))
    /\ UNCHANGED <<keywords, dirExists, fsWritable, marker, files, holders, lockPhase>>


\* run(mode, curdir): the curdir argument is overwritten by os.getcwd().
\* fault: what raises after the job directory was entered ("none": nothing)
run(p, mode, curdir, fault) ==
    LET curdir_ == cwd[p] IN       \* curdir = os.getcwd(): the argument is replaced
    /\ fault # "none" => mode \in {"noqsub", "serial"}
    /\ IF ~dirExists
          THEN \* os.chdir(self.keywords['name']) raises
               /\ UNCHANGED <<cwd, outcar, queued>>
               /\ last' = DidArg("run", mode, Raise("OSError", "", ""))
          ELSE IF fault \in {"command", "popen"}
          THEN \* raised before a process exists; os.chdir(curdir) is not reached
               /\ cwd' = [cwd EXCEPT ![p] = "job"]
               /\ UNCHANGED <<outcar, queued>>
               /\ last' = DidArg("run", mode, Raise("OSError", "", ""))
          ELSE IF fault = "wait"
          THEN \* the process was launched; waiting on it raised
               /\ cwd' = [cwd EXCEPT ![p] = "job"]
               /\ IF mode = "noqsub"
                     THEN outcar' = Wrote(Started) /\ queued' = queued
                     ELSE outcar' = outcar /\ queued' = TRUE
               /\ last' = DidArg("run", mode, Raise("KeyboardInterrupt", "", ""))
          ELSE /\ cwd' = [cwd EXCEPT ![p] = curdir_]     \* os.chdir(curdir)
               /\ IF mode = "noqsub"
                     THEN \* the program ran until it exited
                          /\ \E o \in ExitStates : outcar' = Wrote(o)
                          /\ queued' = queued
                     ELSE IF mode = "serial"
                     THEN \* the submission command returned; the job is queued
                          /\ outcar' = outcar
                          /\ queued' = TRUE
                     ELSE UNCHANGED <<outcar, queued>>
               /\ last' = DidArg("run", mode, Return(NoneVal))
    /\ UNCHANGED <<keywords, dirExists, fsWritable, marker, files, holders, lockPhase>>

set_up_program_input(p) ==
    /\ IF keywords.program = "vasp"
          THEN IF dirExists
                  THEN /\ vasp_checker_set_up_program_input
                       /\ last' = Did("set_up_program_input", Return(NoneVal))
                  ELSE /\ files' = files
                       /\ last' = Did("set_up_program_input", Raise("IOError", "", ""))
          ELSE /\ files' = files
               /\ last' = Did("set_up_program_input",
                              NotRecognized("set_up_program_input"))
    /\ UNCHANGED <<keywords, dirExists, fsWritable, marker, outcar, queued, cwd,
                   holders, lockPhase>>

\* line 142 handing the image count and the parent over in the wrong order
get_path_to_write_neb_parent_energy_result_swapped(parent) ==
    IF keywords.program = "vasp"
       THEN IF HasImages
               THEN Return(Zfill2(
                        vasp_checker_get_path_to_write_neb_parent_energy(parent, Images)))
               ELSE Raise("KeyError", "", "images")
       ELSE NotRecognized("get_path_to_write_neb_parent_energy")

get_path_to_write_neb_parent_energy_result(parent) ==
    IF keywords.program = "vasp"
       THEN IF HasImages
               THEN Return(Zfill2(
                        vasp_checker_get_path_to_write_neb_parent_energy(Images, parent)))
               ELSE Raise("KeyError", "", "images")
       ELSE NotRecognized("get_path_to_write_neb_parent_energy")

get_path_to_write_neb_parent_energy(p, parent) ==
    /\ last' = DidArg("get_path_to_write_neb_parent_energy",
                      IF parent = 1 THEN "1" ELSE "2",
                      get_path_to_write_neb_parent_energy_result(parent))
    /\ UNCHANGED <<keywords, fsvars, cwd, holders, lockPhase>>

\* image_structures holds one structure per image
set_up_program_input_neb(p) ==
    /\ IF keywords.program = "vasp"
          THEN IF dirExists /\ HasImages
                  THEN /\ vasp_checker_set_up_program_input_neb(Images)
                       /\ last' = Did("set_up_program_input_neb", Return(NoneVal))
                  ELSE /\ files' = files
                       /\ last' = Did("set_up_program_input_neb",
                                      Raise(IF dirExists THEN "KeyError" ELSE "IOError",
                                            "", ""))
          ELSE /\ files' = files
               /\ last' = Did("set_up_program_input_neb", NotRecognized("set_up_neb"))
    /\ UNCHANGED <<keywords, dirExists, fsWritable, marker, outcar, queued, cwd,
                   holders, lockPhase>>

\* the queued job starts on the cluster and writes its OUTCAR
JobStarts ==
    /\ queued /\ dirExists
    /\ queued' = FALSE
    /\ outcar' = Wrote(Started)
    /\ last' = Did("JobStarts", Return(NoneVal))
    /\ UNCHANGED <<keywords, dirExists, fsWritable, marker, files, cwd, holders,
                   lockPhase>>

\* the program finishes in directory d: the completion marker is in OUTCAR
JobFinishes(d) ==
    /\ outcar[d] = "started"
    /\ outcar' = [outcar EXCEPT ![d] = "complete"]
    /\ last' = Did("JobFinishes", Return(NoneVal))
    /\ UNCHANGED <<keywords, dirExists, fsWritable, marker, files, queued, cwd,
                   holders, lockPhase>>

\* ------------------------------------------------------------- children
child_dict == heap[keywords.child_dict]

\* get_children handing out the child mapping itself, not a copy
get_children_alias(p) ==
    /\ Len(heap) <= MaxCopies
    /\ IF child_dict # EmptyDict
          THEN /\ heap' = heap
               /\ returned' = keywords.child_dict
               /\ last' = Did("get_children", Return("dict"))
          ELSE /\ heap' = heap
               /\ returned' = 0
               /\ last' = Did("get_children", Return(NoneVal))
    /\ UNCHANGED <<keywords, fsvars, cwd, holders, lockPhase>>

\* self.keywords['child_dict'].copy(): a new mapping object with the same entries
get_children(p) ==
    /\ Len(heap) <= MaxCopies
    /\ IF child_dict # EmptyDict
          THEN /\ heap' = Append(heap, child_dict)
               /\ returned' = Len(heap) + 1
               /\ last' = Did("get_children", Return("dict"))
          ELSE /\ heap' = heap
               /\ returned' = 0
               /\ last' = Did("get_children", Return(NoneVal))
    /\ UNCHANGED <<keywords, fsvars, cwd, holders, lockPhase>>

\* the caller adds or rebinds an entry of the mapping it was handed
caller_setitem(l, c) ==
    /\ returned # 0
    /\ heap' = [heap EXCEPT ![returned] =
                   [k \in DOMAIN heap[returned] \cup {l} |->
                       IF k = l THEN c ELSE heap[returned][k]]]
    /\ last' = Did("caller_setitem", Return(NoneVal))
    /\ UNCHANGED <<keywords, fsvars, cwd, holders, lockPhase, returned>>

\* the caller removes an entry of the mapping it was handed
caller_delitem(l) ==
    /\ returned # 0
    /\ l \in DOMAIN heap[returned]
    /\ heap' = [heap EXCEPT ![returned] =
                   [k \in DOMAIN heap[returned] \ {l} |-> heap[returned][k]]]
    /\ last' = Did("caller_delitem", Return(NoneVal))
    /\ UNCHANGED <<keywords, fsvars, cwd, holders, lockPhase, returned>>

\* ------------------------------------------------------- initial states
ProgramKeys == {EmptyDict} \cup {[images |-> n] : n \in 1..MaxImages}

Keywords == [name : {"job"}, program : Programs, program_keys : ProgramKeys,
             child_dict : {1}]

NoOutcar == [d \in Dirs |-> "absent"]

\* no artifact whose contents are read
NoDisk == [f \in {} |-> <<>>]

\* the outputs an earlier run of the program may have left in its directories
LeftOutputs ==
    {o \in [Dirs -> {"absent", "started", "complete"}] :
        \A d \in Dirs \ RunDirs : o[d] = "absent"}

\* a job directory that does not exist yet, or one created earlier that holds
\* no input artifact or the whole input set, and the outputs of earlier runs
InitDir ==
    /\ dirExists \in BOOLEAN
    /\ fsWritable \in (IF dirExists THEN {TRUE} ELSE BOOLEAN)
    /\ marker \in (IF dirExists THEN BOOLEAN ELSE {FALSE})
    /\ files \in (IF dirExists
                     THEN {{}, {<<JobDir, f>> : f \in InputArtifacts}}
                     ELSE {{}})
    /\ outcar \in (IF dirExists THEN LeftOutputs ELSE {NoOutcar})
    /\ queued = FALSE

InitProcs ==
    /\ cwd = [p \in Procs |-> "start"]
    /\ holders = {}
    /\ lockPhase = "none"
    /\ last = NoCall
    /\ pc = [p \in Procs |-> "check"]

Init ==
    /\ keywords \in Keywords
    /\ InitDir
    /\ InitProcs
    /\ heap = <<EmptyDict>>
    /\ returned = 0
    /\ disk = NoDisk

\* ------------------------------------------------------------ next state
Others == Procs \ {Self}

Next ==
    \/ (write_directory(Self) /\ UNCHANGED <<pc, heapvars, disk>>)
    \/ (\E p \in Procs : lock_directory(p) /\ UNCHANGED <<pc, heapvars, disk>>)
    \/ (\E p \in Procs : unlock_directory(p) /\ UNCHANGED <<pc, heapvars, disk>>)
    \/ (is_ready_to_run(Self) /\ UNCHANGED <<pc, heapvars, disk>>)
    \/ (wait_to_write(Self) /\ UNCHANGED <<pc, heapvars, disk>>)
    \/ (set_up_program_input(Self) /\ UNCHANGED <<pc, heapvars, disk>>)
    \/ (set_up_program_input_neb(Self) /\ UNCHANGED <<pc, heapvars, disk>>)
    \/ (\E ok \in BOOLEAN : forward_parent_structure(Self, ok) /\ UNCHANGED <<pc, heapvars, disk>>)
    \/ (\E ok \in BOOLEAN : forward_parent_energy(Self, ok) /\ UNCHANGED <<pc, heapvars, disk>>)
    \/ (\E f \in Dirs \X {"POSCAR"} :
            get_structure_from_file(Self, f) /\ UNCHANGED <<pc, heapvars, disk>>)
    \/ (\E w \in {1, 2} :
            get_path_to_write_neb_parent_energy(Self, w) /\ UNCHANGED <<pc, heapvars, disk>>)
    \/ (\E e \in 0..MaxErrct : is_complete(Self, e) /\ UNCHANGED <<pc, heapvars, disk>>)
    \/ (\E m \in Modes, c \in CurdirArgs, f \in Faults :
            run(Self, m, c, f) /\ UNCHANGED <<pc, heapvars, disk>>)
    \/ (JobStarts /\ UNCHANGED <<pc, heapvars, disk>>)
    \/ (\E d \in Dirs : JobFinishes(d) /\ UNCHANGED <<pc, heapvars, disk>>)

Spec == Init /\ [][Next]_vars

\* --------------------------------------------- the orchestrator protocol
\* is_ready_to_run -> lock_directory -> set_up_program_input -> run ->
\* unlock_directory, by every process on the one job directory; each call is
\* one step; an exception before the lock is held ends the process's protocol,
\* one after it goes on to unlock_directory (scoped acquire/release)
After(p, ok, retry) ==
    pc' = [pc EXCEPT ![p] = IF last'.res.outcome = "raise" THEN "aborted"
                            ELSE IF last'.res.val = "False" THEN retry
                            ELSE ok]

Released(p, ok) ==
    pc' = [pc EXCEPT ![p] = IF last'.res.outcome = "raise" THEN "unlock" ELSE ok]

ProtoCheck(p) ==
    /\ pc[p] = "check"
    /\ is_ready_to_run(p)
    /\ After(p, "lock", "check")
    /\ UNCHANGED <<heapvars, disk>>

ProtoLock(p) ==
    /\ pc[p] = "lock"
    /\ lock_directory(p)
    /\ After(p, "setup", "setup")
    /\ UNCHANGED <<heapvars, disk>>

ProtoSetup(p) ==
    /\ pc[p] = "setup"
    /\ set_up_program_input(p)
    /\ Released(p, "run")
    /\ UNCHANGED <<heapvars, disk>>

ProtoRun(p) ==
    /\ pc[p] = "run"
    /\ \E m \in {"noqsub", "serial"}, c \in CurdirArgs, f \in Faults : run(p, m, c, f)
    /\ Released(p, "unlock")
    /\ UNCHANGED <<heapvars, disk>>

ProtoUnlock(p) ==
    /\ pc[p] = "unlock"
    /\ unlock_directory(p)
    /\ After(p, "done", "done")
    /\ UNCHANGED <<heapvars, disk>>

NextProto ==
    \/ \E p \in Procs : ProtoCheck(p)
    \/ \E p \in Procs : ProtoLock(p)
    \/ \E p \in Procs : ProtoSetup(p)
    \/ \E p \in Procs : ProtoRun(p)
    \/ \E p \in Procs : ProtoUnlock(p)
    \/ (JobStarts /\ UNCHANGED <<pc, heapvars, disk>>)
    \/ (\E d \in Dirs : JobFinishes(d) /\ UNCHANGED <<pc, heapvars, disk>>)

SpecProto == Init /\ [][NextProto]_vars

\* ------------------------------------------------ the callers of get_children
InitChildren ==
    /\ keywords \in Keywords
    /\ fsWritable = TRUE /\ dirExists = TRUE /\ marker = FALSE
    /\ files = {} /\ outcar = NoOutcar /\ queued = FALSE
    /\ InitProcs
    /\ heap \in {<<d>> : d \in Dicts}
    /\ returned = 0
    /\ disk = NoDisk

NextChildren ==
    \/ (get_children(Self) /\ UNCHANGED <<pc, disk>>)
    \/ (\E l \in Labels, c \in Children : caller_setitem(l, c) /\ UNCHANGED <<pc, disk>>)
    \/ (\E l \in Labels : caller_delitem(l) /\ UNCHANGED <<pc, disk>>)

SpecChildren == InitChildren /\ [][NextChildren]_vars

\* ------------------------------------------------ the scoped setup protocol
\* lock_directory -> set_up_program_input -> unlock_directory, by every
\* process on the one job directory; each call is one step
InitScoped ==
    /\ keywords \in Keywords
    /\ dirExists \in BOOLEAN
    /\ fsWritable = TRUE
    /\ marker \in (IF dirExists THEN BOOLEAN ELSE {FALSE})
    /\ files \in (IF dirExists
                     THEN {{}, {<<JobDir, f>> : f \in InputArtifacts}}
                     ELSE {{}})
    /\ outcar = NoOutcar
    /\ queued = FALSE
    /\ cwd = [p \in Procs |-> "start"]
    /\ holders = {}
    /\ lockPhase = "none"
    /\ last = NoCall
    /\ pc = [p \in Procs |-> "lock"]
    /\ heap = <<EmptyDict>>
    /\ returned = 0
    /\ disk = NoDisk

\* lock_directory raising: the lock is not held and the protocol ends
ScopedLock(p) ==
    /\ pc[p] = "lock"
    /\ lock_directory(p)
    /\ After(p, "setup", "setup")
    /\ UNCHANGED <<heapvars, disk>>

\* set_up_program_input raising ends the protocol with the lock still held
ScopedSetup_abandons(p) ==
    /\ pc[p] = "setup"
    /\ set_up_program_input(p)
    /\ After(p, "unlock", "unlock")
    /\ UNCHANGED <<heapvars, disk>>

\* the release follows whether set_up_program_input returned or raised
ScopedSetup(p) ==
    /\ pc[p] = "setup"
    /\ set_up_program_input(p)
    /\ Released(p, "unlock")
    /\ UNCHANGED <<heapvars, disk>>

ScopedUnlock(p) ==
    /\ pc[p] = "unlock"
    /\ unlock_directory(p)
    /\ After(p, "done", "done")
    /\ UNCHANGED <<heapvars, disk>>

ScopedStep(p) == ScopedLock(p) \/ ScopedSetup(p) \/ ScopedUnlock(p)

NextScoped ==
    \/ \E p \in Procs : ScopedLock(p)
    \/ \E p \in Procs : ScopedSetup(p)
    \/ \E p \in Procs : ScopedUnlock(p)

\* every call is a blocking call that ends: a process that has a next call
\* makes it
SpecScoped ==
    InitScoped /\ [][NextScoped]_vars /\ \A p \in Procs : WF_vars(ScopedStep(p))

\* ------------------------------------------------- VaspChecker: structures
\* a structure: its lattice and the coordinates of its sites
Lattices   == {"cubic", "hexagonal"}
Structures == [lattice : Lattices, coords : 0..MaxCoord]
Comments   == {"initial", "relaxed"}

\* Poscar(structure).write_file: a comment line, the lattice, and the
\* coordinates to the written precision
PoscarText(comment, s) == <<comment, s.lattice, s.coords \div 2>>

\* Poscar.from_file(path).structure: the comment line is not part of it
PoscarStructure(text) == [lattice |-> text[2], coords |-> 2 * text[3]]

\* equality of structures, within the tolerance of the written precision
StructEq(a, b) == a.lattice = b.lattice /\ (a.coords - b.coords) \in -1..1

PoscarTexts ==
    {<<c, l, d>> : c \in Comments, l \in Lattices, d \in 0..(MaxCoord \div 2)}

Put(f, k, v) == [x \in DOMAIN f \cup {k} |-> IF x = k THEN v ELSE f[x]]

\* the Ingredient side of the state, at rest
QuietJob ==
    /\ dirExists = TRUE /\ fsWritable = TRUE /\ marker = FALSE
    /\ files = {} /\ outcar = NoOutcar /\ queued = FALSE
    /\ InitProcs
    /\ heap = <<EmptyDict>>
    /\ returned = 0

\* --------------------------------------- VaspChecker: forwarding a structure
Dests == {"childdir", "nextdir"}

\* the named artifact of the Checker's own directory becomes dest/POSCAR
forward_structure_file(op, artifact, dest) ==
    LET from == <<keywords.name, artifact>> IN
    /\ IF from \in DOMAIN disk
          THEN /\ disk' = Put(disk, <<dest, "POSCAR">>, disk[from])
               /\ last' = DidArg(op, dest, Return(NoneVal))
          ELSE /\ disk' = disk
               /\ last' = DidArg(op, dest, Raise("IOError", "", ""))
    /\ UNCHANGED <<keywords, jobvars>>

\* forward_final_structure_file handing on the structure the parent started from
forward_final_structure_file_initial(dest) ==
    forward_structure_file("forward_final_structure_file", "POSCAR", dest)

forward_final_structure_file(dest) ==
    forward_structure_file("forward_final_structure_file", "CONTCAR", dest)

forward_initial_structure_file(dest) ==
    forward_structure_file("forward_initial_structure_file", "POSCAR", dest)

\* a parent directory with its initial structure, and its final structure
\* once the program has written one
ParentDisks ==
    UNION {[F -> PoscarTexts] :
              F \in {{<<"structure", "POSCAR">>},
                     {<<"structure", "POSCAR">>, <<"structure", "CONTCAR">>}}}

InitForward ==
    /\ keywords = [name |-> "structure", program_keys |-> EmptyDict]
    /\ QuietJob
    /\ disk \in ParentDisks

NextForward ==
    \/ \E dest \in Dests : forward_final_structure_file(dest)
    \/ \E dest \in Dests : forward_initial_structure_file(dest)

SpecForward == InitForward /\ [][NextForward]_vars

\* ------------------------------------ VaspChecker: the displacement artifact
DispDirs  == {"dynamics", "childdir"}
DispLines == {"0.1 0.0 0.0", "0.0 0.1 0.0"}
AtomCounts == {1, 2}

\* the configurations of a payload: each one a list of numatoms lines
ConfigsOf(n) ==
    IF n = 1 THEN {<<l>> : l \in DispLines}
             ELSE {<<"0.1 0.0 0.0", "0.0 0.1 0.0">>}

\* the valid payloads: every configuration has numatoms lines
Payloads ==
    UNION {[descriptor : {"Al"}, numatoms : {n},
            configs : UNION {[1..k -> ConfigsOf(n)] : k \in 0..MaxConfigs}] :
              n \in AtomCounts}

RECURSIVE ConfigLines(_)
ConfigLines(configs) ==
    IF configs = <<>> THEN <<>>
    ELSE <<"Konfig=">> \o Head(configs) \o ConfigLines(Tail(configs))

\* the loop over the configurations stopping after the first one
XdatcarText_first_config(x) ==
    <<x.descriptor, x.numatoms>>
        \o ConfigLines(IF x.configs = <<>> THEN <<>> ELSE <<Head(x.configs)>>)

\* the lines written: descriptor, atom count, then each configuration under
\* its header line
XdatcarText(x) == <<x.descriptor, x.numatoms>> \o ConfigLines(x.configs)

RECURSIVE ReadConfigs(_, _)
ReadConfigs(lines, n) ==
    IF Len(lines) < n + 1 THEN <<>>
    ELSE <<SubSeq(lines, 2, n + 1)>> \o ReadConfigs(SubSeq(lines, n + 2, Len(lines)), n)

\* the payload read back from the lines of the file
XdatcarPayload(text) ==
    [descriptor |-> text[1], numatoms |-> text[2],
     configs |-> ReadConfigs(SubSeq(text, 3, Len(text)), text[2])]

write_my_displacement_file(d, x) ==
    /\ disk' = Put(disk, <<d, "XDATCAR">>, XdatcarText(x))
    /\ last' = DidArg("write_my_displacement_file", <<d, x>>, Return(NoneVal))
    /\ UNCHANGED <<keywords, jobvars>>

read_my_displacement_file(d) ==
    /\ last' = DidArg("read_my_displacement_file", d,
                      IF <<d, "XDATCAR">> \in DOMAIN disk
                         THEN Return(XdatcarPayload(disk[<<d, "XDATCAR">>]))
                         ELSE Raise("IOError", "", ""))
    /\ UNCHANGED <<keywords, jobvars, disk>>

\* the directory 'dynamics' holds a displacement file, 'childdir' none
InitDisp ==
    /\ keywords = [name |-> "dynamics", program_keys |-> EmptyDict]
    /\ QuietJob
    /\ disk \in {[f \in {<<"dynamics", "XDATCAR">>} |-> XdatcarText(x)] : x \in Payloads}

NextDisp ==
    \/ \E d \in DispDirs, x \in Payloads : write_my_displacement_file(d, x)
    \/ \E d \in DispDirs : read_my_displacement_file(d)

SpecDisp == InitDisp /\ [][NextDisp]_vars

\* ------------------------------------ VaspChecker: the structure artifact
\* keywords['structure'] when no in-memory structure was supplied
NoStructure == [lattice |-> NoneVal, coords |-> 0]

\* program_keys['mast_coordinates'] names the file the coordinates come from
CoordPath   == <<"structure", "POSCAR_coordinates">>
HasOverride == "mast_coordinates" \in DOMAIN keywords.program_keys
HasStructure == keywords.structure # NoStructure
PosPath     == <<keywords.name, "POSCAR">>

\* the template with the coordinates of the coordinate source in place of its own
Graft(coordstruc, template) ==
    [lattice |-> template.lattice, coords |-> coordstruc.coords]

\* an in-memory structure, when one is supplied, going before everything else
_vasp_poscar_setup_memory_first ==
    /\ IF HasStructure
          THEN /\ disk' = Put(disk, PosPath, PoscarText("written", keywords.structure))
               /\ last' = Did("_vasp_poscar_setup", Return(keywords.structure))
          ELSE IF PosPath \in DOMAIN disk
          THEN /\ disk' = disk
               /\ last' = Did("_vasp_poscar_setup",
                              Return(PoscarStructure(disk[PosPath])))
          ELSE /\ disk' = disk
               /\ last' = Did("_vasp_poscar_setup", Raise("IOError", "", ""))
    /\ UNCHANGED <<keywords, jobvars>>

\* a coordinate override grafts onto the structure artifact that is there;
\* without one an artifact that is there stays; without either the in-memory
\* structure is written
_vasp_poscar_setup ==
    /\ IF HasOverride
          THEN IF PosPath \in DOMAIN disk
                    /\ keywords.program_keys["mast_coordinates"] \in DOMAIN disk
                  THEN LET coordstruc ==
                               PoscarStructure(disk[keywords.program_keys["mast_coordinates"]])
                           grafted == Graft(coordstruc, PoscarStructure(disk[PosPath]))
                       IN /\ disk' = Put(disk, PosPath, PoscarText("grafted", grafted))
                          /\ last' = Did("_vasp_poscar_setup", Return(grafted))
                  ELSE \* no template to graft onto, or no coordinate file
                       /\ disk' = disk
                       /\ last' = Did("_vasp_poscar_setup", Raise("IOError", "", ""))
          ELSE IF PosPath \in DOMAIN disk
          THEN /\ disk' = disk
               /\ last' = Did("_vasp_poscar_setup",
                              Return(PoscarStructure(disk[PosPath])))
          ELSE IF HasStructure
          THEN /\ disk' = Put(disk, PosPath, PoscarText("written", keywords.structure))
               /\ last' = Did("_vasp_poscar_setup", Return(keywords.structure))
          ELSE \* nothing to take a structure from
               /\ disk' = disk
               /\ last' = Did("_vasp_poscar_setup", Raise("IOError", "", ""))
    /\ UNCHANGED <<keywords, jobvars>>

\* VaspChecker(name="childdir", program_keys=..., structure=...): with or
\* without the override, with or without an in-memory structure, with or
\* without a POSCAR in the directory
InitPoscar ==
    /\ keywords \in [name : {"childdir"},
                     program_keys : {EmptyDict, [mast_coordinates |-> CoordPath]},
                     structure : {NoStructure} \cup Structures]
    /\ QuietJob
    /\ disk \in UNION {[F -> PoscarTexts] :
                          F \in {{CoordPath}, {CoordPath, <<"childdir", "POSCAR">>}}}

NextPoscar == _vasp_poscar_setup

SpecPoscar == InitPoscar /\ [][NextPoscar]_vars

\* ------------------------------------- VaspChecker: the k-point artifact
\* the fourth entry of mast_kpoints: a centering token
Tokens == {"M", "G", "throw error"}

Grids == (1..MaxGrid) \X (1..MaxGrid) \X (1..MaxGrid)

\* Kpoints.monkhorst_automatic / Kpoints.gamma_automatic
KpointsOf(grid, token) ==
    [kpts |-> <<grid>>, num_kpts |-> 0,
     style |-> IF token = "M" THEN "Monkhorst" ELSE "Gamma"]

\* the KPOINTS file: comment, number of k-points, style, the grid
KpointsText(k) == <<"Automatic kpoint scheme", k.num_kpts, k.style, k.kpts[1]>>

\* Kpoints.from_file
KpointsFromText(text) ==
    [kpts |-> <<text[4]>>, num_kpts |-> text[2], style |-> text[3]]

\* the centering token a style stands for
StyleToken(style) == IF style = "Monkhorst" THEN "M"
                     ELSE IF style = "Gamma" THEN "G" ELSE "?"

KptPath == <<keywords.name, "KPOINTS">>

\* an unrecognized centering token falling back to a Gamma-centred grid
_vasp_kpoints_setup_default_gamma ==
    LET kpoints == keywords.program_keys["mast_kpoints"]
        grid    == <<kpoints[1], kpoints[2], kpoints[3]>>
        desig   == kpoints[4]
    IN /\ disk' = Put(disk, KptPath, KpointsText(KpointsOf(grid, desig)))
       /\ last' = Did("_vasp_kpoints_setup", Return(KpointsOf(grid, desig)))
       /\ UNCHANGED <<keywords, jobvars>>

_vasp_kpoints_setup ==
    LET kpoints == keywords.program_keys["mast_kpoints"]
        grid    == <<kpoints[1], kpoints[2], kpoints[3]>>
        desig   == kpoints[4]
    IN /\ IF desig \in {"M", "G"}
             THEN /\ disk' = Put(disk, KptPath, KpointsText(KpointsOf(grid, desig)))
                  /\ last' = Did("_vasp_kpoints_setup", Return(KpointsOf(grid, desig)))
             ELSE /\ disk' = disk
                  /\ last' = Did("_vasp_kpoints_setup",
                                 Raise("MASTError", "VaspChecker", "_vasp_kpoints_setup"))
       /\ UNCHANGED <<keywords, jobvars>>

KpointsKeys ==
    {[mast_kpoints |-> <<g[1], g[2], g[3], s>>] : g \in Grids, s \in Tokens}

\* VaspChecker(name="childdir", program_keys=kdict): a Checker for the same
\* directory with another configuration
VaspChecker(kdict) ==
    /\ keywords' = [name |-> "childdir", program_keys |-> kdict]
    /\ last' = Did("VaspChecker", Return(NoneVal))
    /\ UNCHANGED <<jobvars, disk>>

InitKpoints ==
    /\ keywords \in [name : {"childdir"}, program_keys : KpointsKeys]
    /\ QuietJob
    /\ disk = NoDisk

NextKpoints ==
    \/ _vasp_kpoints_setup
    \/ \E kdict \in KpointsKeys : VaspChecker(kdict)

SpecKpoints == InitKpoints /\ [][NextKpoints]_vars

\* ------------------------------------------------ waiting for the lock
\* the owner of the Ingredient has called wait_to_write; the other processes
\* lock and unlock the job directory as they please
InitWait ==
    /\ keywords \in Keywords
    /\ dirExists \in BOOLEAN
    /\ fsWritable = TRUE
    /\ marker \in (IF dirExists THEN BOOLEAN ELSE {FALSE})
    /\ files \in (IF dirExists
                     THEN {{}, {<<JobDir, f>> : f \in InputArtifacts}}
                     ELSE {{}})
    /\ outcar = NoOutcar
    /\ queued = FALSE
    /\ cwd = [p \in Procs |-> "start"]
    /\ holders = {}
    /\ lockPhase = "none"
    /\ last = NoCall
    /\ pc = [p \in Procs |-> IF p = Self THEN "wait" ELSE "free"]
    /\ heap = <<EmptyDict>>
    /\ returned = 0
    /\ disk = NoDisk

WaitReturns(p) ==
    /\ pc[p] = "wait"
    /\ wait_to_write(p)
    /\ pc' = [pc EXCEPT ![p] = "done"]
    /\ UNCHANGED <<heapvars, disk>>

\* the write the caller waited for
WaitWrites(p) ==
    /\ pc[p] = "done"
    /\ set_up_program_input(p)
    /\ pc' = [pc EXCEPT ![p] = "written"]
    /\ UNCHANGED <<heapvars, disk>>

OtherLocks(p) ==
    /\ lock_directory(p)
    /\ UNCHANGED <<pc, heapvars, disk>>

OtherUnlocks(p) ==
    /\ unlock_directory(p)
    /\ UNCHANGED <<pc, heapvars, disk>>

NextWait ==
    \/ WaitReturns(Self)
    \/ WaitWrites(Self)
    \/ \E p \in Others : OtherLocks(p)
    \/ \E p \in Others : OtherUnlocks(p)

\* the waiting call goes on when it can; nothing makes the others act
SpecWait == InitWait /\ [][NextWait]_vars /\ WF_vars(WaitReturns(Self))

\* ================================================================ claims
ProgramDependentOps ==
    {"get_structure_from_file", "forward_parent_structure", "forward_parent_energy",
     "is_complete", "is_ready_to_run", "set_up_program_input",
     "set_up_program_input_neb", "get_path_to_write_neb_parent_energy"}

WriteOps ==
    {"set_up_program_input", "set_up_program_input_neb", "forward_parent_structure",
     "forward_parent_energy", "run"}

\* C1: with a program other than 'vasp', every program-dependent operation
\* fails with MASTError, whatever the state of the job directory.
C1_UnrecognizedProgramRaises ==
    (keywords.program # "vasp" /\ last.op \in ProgramDependentOps)
        => (last.res.outcome = "raise" /\ last.res.exc = "MASTError")

\* C2: after lock_directory and before the next unlock_directory the
\* directory is locked and is_ready_to_run returns False whatever artifacts
\* the directory holds; after unlock_directory and before the next
\* lock_directory it is not locked and is_ready_to_run returns the Checker's
\* readiness predicate (a Checker exists: the program is recognized).
C2_LockDiscipline ==
    /\ lockPhase = "locked" =>
          /\ directory_is_locked
          /\ is_ready_to_run_result = Return("False")
          /\ last.op = "is_ready_to_run" => last.res = Return("False")
    /\ lockPhase = "unlocked" =>
          /\ ~directory_is_locked
          /\ keywords.program = "vasp" =>
                /\ is_ready_to_run_result = Return(Bool(vasp_checker_is_ready_to_run))
                /\ last.op = "is_ready_to_run" =>
                      last.res = Return(Bool(vasp_checker_is_ready_to_run))

C2_Witness ==
    /\ lockPhase = "locked"
    /\ keywords.program = "vasp"
    /\ vasp_checker_is_ready_to_run
    /\ last.op = "is_ready_to_run"
    /\ last.res.val = "False"

\* C3: among processes that each run is_ready_to_run -> lock_directory ->
\* set_up_program_input -> run -> unlock_directory on one job directory, at
\* most one is between its lock_directory and its unlock_directory.
C3_AtMostOneHolder == Cardinality(holders) <= 1

\* C4: while the lock marker is present, a write operation of a caller that
\* does not hold the lock leaves the artifacts of the directory unchanged.
C4_MarkerBlocksWrites ==
    [][(marker /\ Self \notin holders /\ last'.op \in WriteOps)
          => (files' = files /\ outcar' = outcar)]_vars

\* C5: in every outcome of run, the working directory when run ends is the
\* working directory at the moment run was called.
C5_RunRestoresCwd == [][last'.op = "run" => cwd' = cwd]_vars

C7_ImagesCompleteNeeds01 ==
    (keywords.program = "vasp" /\ HasImages) =>
        /\ usepath = 1
        /\ outcar[1] # "complete" =>
              /\ \A e \in 0..MaxErrct : is_complete_result(e).val # "True"
              /\ last.op = "is_complete" => last.res.val # "True"

C7_Witness ==
    /\ keywords.program = "vasp"
    /\ HasImages /\ Images >= 2
    /\ outcar[1] = "started" /\ outcar[2] = "complete"
    /\ last.op = "is_complete"
    /\ last.eh = "01:1"
    /\ last.res.val = "False"

\* C8: whatever count the ErrorHandler returns, is_complete launches nothing,
\* leaves the files, the lock and the working directory as they were, and
\* returns False.
C8_ErrorCountAdvisory ==
    [][(last'.op = "is_complete" /\ last'.eh # "no")
          => /\ last'.res = Return("False")
             /\ UNCHANGED <<dirExists, marker, files, outcar, queued, cwd,
                            holders, lockPhase>>]_vars

C8_Witness ==
    /\ last.op = "is_complete"
    /\ last.eh # "no"
    /\ last.errct > 0
    /\ last.res = Return("False")
    /\ ~queued

\* C9: write_directory never raises and the directory exists after each call.
C9_WriteDirectoryLeavesDirectory ==
    last.op = "write_directory" => (last.res.outcome = "return" /\ dirExists)

\* C10: get_children returns None when child_dict is empty and otherwise a
\* copy of the child mapping; no change the caller makes to the returned
\* mapping changes the children the Ingredient reports.
C10_DefensiveCopy ==
    [][/\ child_dict' = child_dict
       /\ last'.op = "get_children" =>
             IF child_dict = EmptyDict
                THEN returned' = 0 /\ last'.res.val = NoneVal
                ELSE /\ returned' # keywords.child_dict
                     /\ returned' # 0
                     /\ heap'[returned'] = child_dict]_vars

C10_Witness ==
    /\ returned # 0
    /\ last.op \in {"caller_setitem", "caller_delitem"}
    /\ heap[returned] # child_dict
    /\ DOMAIN heap[returned] # DOMAIN child_dict

\* C11: when a dispatching method fails because the program is not recognized,
\* the error names the class of the Ingredient and the method that was called.
C11_ErrorNamesCalledMethod ==
    (last.op \in ProgramDependentOps /\ last.res.exc = "MASTError")
        => (last.res.cls = ClassName /\ last.res.msg = last.op)

\* C12: is_ready_to_run changes nothing: the lock marker, the artifacts, the
\* configuration record and the working directory are the same after the call
\* as before it, whether it returns True, returns False or raises.
C12_IsReadyToRunNoSideEffects ==
    [][last'.op = "is_ready_to_run"
          => UNCHANGED <<keywords, dirExists, fsWritable, marker, files, outcar,
                         queued, cwd, holders, lockPhase>>]_vars

C12_Witness ==
    /\ last.op = "is_ready_to_run"
    /\ last.res = Return("True")
    /\ ~marker /\ holders = {} /\ lockPhase = "unlocked"
    /\ vasp_checker_is_ready_to_run

C14_RunDoesNotAwaitCompletion ==
    [][(last'.op = "run" /\ last'.res.outcome = "return")
          => /\ last'.arg = "serial" => (outcar' = outcar /\ queued')
             /\ last'.arg = "noqsub" =>
                   /\ queued' = queued
                   /\ \A d \in RunDirs : outcar'[d] \in {"started", "complete"}]_vars

C14_Witness ==
    /\ last.op = "run"
    /\ last.arg = "serial"
    /\ last.res.outcome = "return"
    /\ queued
    /\ keywords.program = "vasp"
    /\ is_complete_result(0) = Return("False")

\* C15: forward_final_structure_file(dest) on a parent that holds a CONTCAR,
\* into a destination without a POSCAR, returns, and the POSCAR of the
\* destination then parses to a structure equal to the one the parent's
\* CONTCAR parses to.
C15_ForwardFinalStructure ==
    [][(/\ last'.op = "forward_final_structure_file"
        /\ <<keywords.name, "CONTCAR">> \in DOMAIN disk
        /\ <<last'.arg, "POSCAR">> \notin DOMAIN disk)
          => /\ last'.res.outcome = "return"
             /\ <<last'.arg, "POSCAR">> \in DOMAIN disk'
             /\ StructEq(PoscarStructure(disk'[<<last'.arg, "POSCAR">>]),
                         PoscarStructure(disk'[<<keywords.name, "CONTCAR">>]))
             /\ disk'[<<keywords.name, "CONTCAR">>] = disk[<<keywords.name, "CONTCAR">>]]_vars

C15_Witness ==
    /\ last.op = "forward_final_structure_file"
    /\ last.res.outcome = "return"
    /\ last.arg = "childdir"
    /\ <<"nextdir", "POSCAR">> \notin DOMAIN disk
    /\ PoscarStructure(disk[<<"structure", "POSCAR">>])
          # PoscarStructure(disk[<<"structure", "CONTCAR">>])
    /\ PoscarStructure(disk[<<"childdir", "POSCAR">>])
          = PoscarStructure(disk[<<"structure", "CONTCAR">>])

\* C16: read_my_displacement_file(d) right after write_my_displacement_file(d, x)
\* returns x, for every valid payload x and directory d; and every valid
\* payload is what its written lines read back to.
C16_DisplacementRoundTrip ==
    [][/\ (/\ last.op = "write_my_displacement_file"
           /\ last'.op = "read_my_displacement_file"
           /\ last'.arg = last.arg[1])
             => last'.res = Return(last.arg[2])
       /\ last'.op = "write_my_displacement_file"
             => XdatcarPayload(disk'[<<last'.arg[1], "XDATCAR">>]) = last'.arg[2]]_vars

C16_Witness ==
    /\ last.op = "read_my_displacement_file"
    /\ last.arg = "childdir"
    /\ last.res.outcome = "return"
    /\ last.res.val.numatoms = 1
    /\ Len(last.res.val.configs) = 2
    /\ last.res.val.configs[1] # last.res.val.configs[2]
    /\ XdatcarText(last.res.val) = disk[<<"childdir", "XDATCAR">>]
    /\ disk[<<"dynamics", "XDATCAR">>] # disk[<<"childdir", "XDATCAR">>]

C18_KpointsSetup ==
    [][last'.op = "_vasp_kpoints_setup" =>
          LET kpoints == keywords.program_keys["mast_kpoints"] IN
          IF kpoints[4] \in {"M", "G"}
             THEN /\ last'.res.outcome = "return"
                  /\ last'.res.val.kpts[1] = <<kpoints[1], kpoints[2], kpoints[3]>>
                  /\ StyleToken(last'.res.val.style) = kpoints[4]
                  /\ KptPath \in DOMAIN disk'
                  /\ KpointsFromText(disk'[KptPath]) = last'.res.val
             ELSE /\ last'.res.outcome = "raise"
                  /\ last'.res.exc = "MASTError"
                  /\ disk' = disk]_vars

C18_Witness ==
    /\ last.op = "_vasp_kpoints_setup"
    /\ keywords.program_keys["mast_kpoints"] = <<2, 2, 2, "throw error">>
    /\ last.res.exc = "MASTError"
    /\ KptPath \in DOMAIN disk
    /\ KpointsFromText(disk[KptPath]) = KpointsOf(<<1, 2, 3>>, "G")

\* C20: get_path_to_write_neb_parent_energy returns the first image
\* sub-directory "00" for parent 1 and the last one, fixed by the image count,
\* for parent 2; the path depends on nothing but the image count and the parent.
C20_NebParentEnergyPath ==
    /\ (keywords.program = "vasp" /\ HasImages) =>
          /\ get_path_to_write_neb_parent_energy_result(1) = Return("00")
          /\ get_path_to_write_neb_parent_energy_result(2) = Return(Zfill2(Images + 1))
    /\ (last.op = "get_path_to_write_neb_parent_energy"
            /\ last.res.outcome = "return") =>
          /\ HasImages
          /\ last.res.val = (IF last.arg = "1" THEN "00" ELSE Zfill2(Images + 1))

C20_Witness ==
    /\ last.op = "get_path_to_write_neb_parent_energy"
    /\ last.arg = "2"
    /\ HasImages /\ Images = 2
    /\ last.res = Return("03")
    /\ marker /\ files # {}

\* C21: wait_to_write returns only in a state without the lock marker, and
\* leaves it absent; if from some point on the marker stays absent,
\* wait_to_write returns; if the marker is always present it never returns.
C21_WaitToWrite ==
    /\ [][last'.op = "wait_to_write" => (~marker /\ ~marker')]_vars
    /\ (<>[](~marker)) => <>(pc[Self] # "wait")
    /\ ([]marker) => [](pc[Self] = "wait")

C21_Witness ==
    /\ pc[Self] = "done"
    /\ last.op = "wait_to_write"
    /\ lockPhase = "unlocked"           \* the marker was taken and removed
    /\ ~marker

\* C22: is_complete consults the ErrorHandler only after the Checker has
\* reported incomplete and OUTCAR was found in the probed path, never when
\* the Checker reports complete or the job has not started; for a job with
\* images it is consulted on sub-directory 01, restricted to image 1.
C22_ErrorHandlerOrdering ==
    LET Calls == is_complete_calls
        At(c) == {i \in DOMAIN Calls : Calls[i] = c}
        Checker == At("vasp_checker.images_complete") \cup At("vasp_checker.is_complete")
        Handler == At("vasp_error.loop_through_errors")
    IN /\ \A h \in Handler :
             /\ \E c \in Checker : c < h
             /\ \E e \in At("os.path.exists") : e < h
             /\ ~mycomplete
             /\ outcar[usepath] # "absent"
       /\ last.op = "is_complete" =>
             /\ (last.eh # "no") = (Handler # {})
             /\ (mycomplete \/ outcar[usepath] = "absent") => last.eh = "no"
             /\ last.eh # "no" =>
                   /\ last.res = Return("False")
                   /\ last.eh = (IF HasImages THEN "01:1" ELSE "dir")
                   /\ HasImages => usepath = 1

C22_Witness ==
    /\ last.op = "is_complete"
    /\ HasImages /\ Images = 1
    /\ outcar[1] = "started"
    /\ last.eh = "01:1"
    /\ is_complete_calls = <<"vasp_checker.images_complete", "os.path.exists",
                             "vasp_error.loop_through_errors">>

\* C23 as stated: run with a mode other than 'noqsub' and 'serial' launches
\* nothing, raises nothing and returns with the working directory it was
\* called in, whatever the curdir argument.
C23_OtherModeNeverRaises ==
    [][(last'.op = "run" /\ last'.arg \notin {"noqsub", "serial"})
          => /\ last'.res.outcome = "return"
             /\ outcar' = outcar /\ queued' = queued
             /\ cwd' = cwd]_vars

\* C23 amended: the same, for a job directory that exists; without it run
\* raises OSError before it looks at the mode, and launches nothing and stays
\* in the working directory it was called in all the same.
C23_OtherModeLaunchesNothing ==
    [][(last'.op = "run" /\ last'.arg \notin {"noqsub", "serial"})
          => /\ dirExists => last'.res.outcome = "return"
             /\ ~dirExists => (last'.res.outcome = "raise" /\ last'.res.exc = "OSError")
             /\ outcar' = outcar /\ queued' = queued
             /\ files' = files /\ marker' = marker
             /\ cwd' = cwd]_vars

C23_Witness ==
    /\ last.op = "run"
    /\ last.arg = "other"
    /\ last.res = Return(NoneVal)
    /\ dirExists
    /\ cwd[Self] = "job"               \* an earlier run left the caller there
    /\ ~queued
    /\ \A d \in Dirs : outcar[d] = "absent"

\* C24: write_directory returns normally whatever os.makedirs does: when the
\* directory exists and when it cannot be created the OSError is swallowed
\* and the filesystem is as before, so the directory exists after the call
\* only if it existed before or could be created.
C24_WriteDirectorySwallowsOSError ==
    [][last'.op = "write_directory"
          => /\ last'.res = Return(NoneVal)
             /\ dirExists' = (dirExists \/ fsWritable)
             /\ makedirs_raises => dirExists' = dirExists
             /\ UNCHANGED <<keywords, fsWritable, marker, files, outcar, queued,
                            cwd, holders, lockPhase>>]_vars

C24_Witness ==
    /\ last.op = "write_directory"
    /\ last.res = Return(NoneVal)
    /\ ~dirExists /\ ~fsWritable       \* creation failed, the call returned
    /\ makedirs_raises

====
